---- MODULE Spec2Model ----
(***************************************************************************)
(* Model of the recruiting-intake backend (src/main.py): the five business *)
(* endpoints, the Airtable helper functions they call, the outbound calls  *)
(* they issue and the responses they return.                               *)
(*                                                                         *)
(* Conventions.  Python's None and a missing JSON key are the empty        *)
(* sequence <<>>; the result of dict.get(k) is therefore an option:        *)
(* <<>> when the key is absent, <<v>> when it is present with value v.     *)
(* A JSON object is a TLA+ record, the JSON null body is <<>>.             *)
(* Requests are served one after the other; the store is reached only      *)
(* through the outbound calls, which are logged in `calls`.                *)
(***************************************************************************)
EXTENDS Integers, Sequences, FiniteSets, TLC

VARIABLES
    env,          \* AIRTABLE_TOKEN, AIRTABLE_BASE_ID, MAKE_WEBHOOK_URL (read once)
    store,        \* the remote tables, as changed by this system's writes
    nreq,         \* number of requests served or in progress
    handler,      \* endpoint of the current / last request
    pc,           \* position inside the current handler, "idle" between requests
    req,          \* the inputs of the current / last request
    calls,        \* outbound calls of the current / last request, in order
    offset,       \* get_results: local `offset`
    params,       \* get_results: local `params`
    candidates,   \* get_results: local `candidates`
    description_raw, \* trigger_analysis: local `description_raw`
    response      \* the response of the last finished request

vars == <<env, store, nreq, handler, pc, req, calls, offset, params,
          candidates, description_raw, response>>

(***************************************************************************)
(* Bounds of the model.                                                    *)
(***************************************************************************)
MaxRequests == 2
MaxPages == 2
MaxCandidates == 2
MaxClock == 1

(***************************************************************************)
(* Program constants.                                                      *)
(***************************************************************************)
JOBS_TABLE == "Jobs"
CANDIDATES_TABLE == "Candidates"
LookupPageSize == 1
PageSize == 100

None == <<>>
Some(v) == <<v>>

\* Python truthiness of an optional string: None and "" are falsy.
Truthy(o) == o # None /\ o[1] # ""

\* dict.get(k): None when the key is absent.
Get(d, k) == IF k \in DOMAIN d THEN Some(d[k]) ELSE None

\* dict.get(k, default)
GetOr(d, k, default) == IF k \in DOMAIN d THEN d[k] ELSE default

(***************************************************************************)
(* Input domains.                                                          *)
(***************************************************************************)
EnvValues == {None, Some("v")}
JobIdInputs == {"", "JOB-7"}
UploadJobIds == {"JOB-0", "JOB-7"}
DecisionInputs == {"yes", "no", "maybe"}
Cursors == {"abc", "def"}
Descriptions == {"dev python"}
NotPdf == [parseable |-> FALSE, pages |-> <<>>]
Files == {NotPdf, [parseable |-> TRUE, pages |-> <<"Hello ", "World">>]}
FileNames == {"cv.pdf"}

\* Records the store may return for the Candidates table.
CandidateRecords ==
    { [id |-> "recA"],
      [id |-> "recC", fields |-> [file_name |-> "c.pdf", score |-> 5,
                                  decision |-> "OUI", analysis_status |-> "done",
                                  analysis_explanation |-> "fits",
                                  job_id |-> "JOB-7"]] }

\* Records the store may return for the Jobs table.
JobRecords ==
    { [id |-> "recJ"],
      [id |-> "recK", fields |-> [job_id |-> "JOB-7"]],
      [id |-> "recL", fields |-> [job_id |-> "JOB-7", description_raw |-> "dev python"]] }

\* The store's answers to a failed call.
ErrorResponses == { [status_code |-> "503", text |-> "unavailable"] }

RECURSIVE SeqsUpTo(_, _)
SeqsUpTo(S, n) ==
    IF n = 0 THEN {<<>>}
    ELSE LET shorter == SeqsUpTo(S, n - 1)
         IN  shorter \cup {Append(s, x) : s \in {t \in shorter : Len(t) = n - 1}, x \in S}


(***************************************************************************)
(* Outbound HTTP.  A call either fails in transport (requests raises), or  *)
(* is answered with a non-success status, or succeeds.                     *)
(***************************************************************************)
\* str() of an optional string, as an f-string formats it.
Str(o) == IF o = None THEN "None" ELSE o[1]

AirtableUrl(path) == <<"https://api.airtable.com/v0", Str(env.AIRTABLE_BASE_ID)>> \o path

Call(method, url, query, json, outcome, reply) ==
    [method |-> method, url |-> url, query |-> query, json |-> json,
     outcome |-> outcome, reply |-> reply]

Exception(type, msg) == [type |-> type, msg |-> msg]
ConnectionError == Exception("ConnectionError", <<"connection failed">>)
HTTPError(r) == Exception("HTTPError", <<r.status_code, "Server Error">>)

\* What a helper did: the exception it raised (None if it returned), the value
\* it returned, the outbound calls it made and the store after them.
Result(raised, value, made, st) ==
    [raised |-> raised, value |-> value, made |-> made, store |-> st]

NewRecordId(st) == "rec" \o ToString(Len(st.Jobs) + Len(st.Candidates) + 1)

HasRecord(st, table, record_id) == \E i \in DOMAIN st[table] : st[table][i].id = record_id

\* PATCH of the store: the given fields are merged into the record, the
\* other fields are left as they are.
Patched(rec, fields) ==
    [id |-> rec.id,
     fields |-> [k \in DOMAIN rec.fields \cup DOMAIN fields |->
                    IF k \in DOMAIN fields THEN fields[k] ELSE rec.fields[k]]]

StoreCreate(st, table, rec) == [st EXCEPT ![table] = Append(@, rec)]

StoreUpdate(st, table, record_id, fields) ==
    [st EXCEPT ![table] = [i \in DOMAIN @ |->
        IF @[i].id = record_id THEN Patched(@[i], fields) ELSE @[i]]]

\* The configuration is not checked.
check_airtable_env_Skipped == TRUE

check_airtable_env == Truthy(env.AIRTABLE_TOKEN) /\ Truthy(env.AIRTABLE_BASE_ID)

EnvError ==
    Exception("RuntimeError", <<"AIRTABLE_TOKEN et AIRTABLE_BASE_ID doivent etre definies">>)

AirtableError(r) == Exception("RuntimeError", <<"Airtable error", r.status_code, r.text>>)

\* airtable_create_record(table, fields): the set of its possible results.
airtable_create_record(table, fields) ==
    IF ~check_airtable_env
    THEN {Result(Some(EnvError), None, <<>>, store)}
    ELSE LET url == AirtableUrl(<<table>>)
             payload == [fields |-> fields]
             rec == [id |-> NewRecordId(store), fields |-> fields]
         IN  {Result(Some(ConnectionError), None,
                     <<Call("POST", url, None, Some(payload), "transport_error", None)>>, store)}
             \cup {Result(Some(AirtableError(r)), None,
                          <<Call("POST", url, None, Some(payload), "http_error", Some(r))>>, store)
                   : r \in ErrorResponses}
             \cup {Result(None, rec,
                          <<Call("POST", url, None, Some(payload), "ok", Some(rec))>>,
                          StoreCreate(store, table, rec))}

NotFound == [status_code |-> "404", text |-> "NOT_FOUND"]

\* airtable_update_record(table, record_id, fields): the set of its possible results.
airtable_update_record(table, record_id, fields) ==
    IF ~check_airtable_env
    THEN {Result(Some(EnvError), None, <<>>, store)}
    ELSE LET url == AirtableUrl(<<table, record_id>>)
             payload == [fields |-> fields]
             after == StoreUpdate(store, table, record_id, fields)
             errors == IF HasRecord(store, table, record_id)
                       THEN ErrorResponses ELSE ErrorResponses \cup {NotFound}
         IN  {Result(Some(ConnectionError), None,
                     <<Call("PATCH", url, None, Some(payload), "transport_error", None)>>, store)}
             \cup {Result(Some(AirtableError(r)), None,
                          <<Call("PATCH", url, None, Some(payload), "http_error", Some(r))>>, store)
                   : r \in errors}
             \cup {Result(None, rec,
                          <<Call("PATCH", url, None, Some(payload), "ok", Some(rec))>>, after)
                   : rec \in {after[table][i] : i \in {j \in DOMAIN after[table] :
                                                        after[table][j].id = record_id}}}

RECURSIVE Concat(_)
Concat(pages) == IF pages = <<>> THEN "" ELSE Head(pages) \o Concat(Tail(pages))

\* extract_text_from_pdf_bytes: raises when the bytes are not a PDF,
\* otherwise the page texts concatenated in page order.
extract_text_from_pdf_bytes(file_bytes) ==
    IF ~file_bytes.parseable
    THEN [raised |-> Some(Exception("FileDataError", <<"cannot open document">>)), value |-> ""]
    ELSE [raised |-> None, value |-> Concat(file_bytes.pages)]

(***************************************************************************)
(* Responses.                                                              *)
(***************************************************************************)
Response(status, body) == [status |-> status, body |-> body]

\* raise HTTPException(status_code, detail)
HTTPException(status, detail) == Response(status, [detail |-> detail])

\* An exception that no handler catches: the framework answers 500.
Unhandled(e) == Response(500, [text |-> "Internal Server Error"])

\* A required parameter missing from the request: the framework answers 422
\* without calling the handler.
ValidationError(name) == Response(422, [detail |-> <<"missing", name>>])

(***************************************************************************)
(* Initial state: the configuration is read from the environment once, the *)
(* tables hold nothing this system wrote, no request has been served.      *)
(***************************************************************************)
NoRequest == [endpoint |-> "none"]

Init ==
    /\ env \in [AIRTABLE_TOKEN : EnvValues, AIRTABLE_BASE_ID : EnvValues,
                MAKE_WEBHOOK_URL : EnvValues]
    /\ store = [Jobs |-> <<>>, Candidates |-> <<>>]
    /\ nreq = 0
    /\ handler = "none"
    /\ pc = "idle"
    /\ req = NoRequest
    /\ calls = <<>>
    /\ offset = None
    /\ params = None
    /\ candidates = <<>>
    /\ description_raw = ""
    /\ response = None

\* A new request is accepted: its locals are fresh.
Accept(name, inputs) ==
    /\ pc = "idle"
    /\ nreq < MaxRequests
    /\ nreq' = nreq + 1
    /\ handler' = name
    /\ req' = inputs

\* The handler returns or raises: the request is over.
Finish(resp) ==
    /\ pc' = "idle"
    /\ response' = resp

\* The error is swallowed and the handler stays where it is: it calls again.
Raise_Swallowed(resp) == UNCHANGED <<pc, response>>

\* An outbound call failed and the error leaves the handler: the request is
\* over, nothing is called again.
Raise(resp) == Finish(resp)

Locals == <<offset, params, candidates, description_raw>>

FreshLocals ==
    /\ offset' = None
    /\ params' = None
    /\ candidates' = <<>>
    /\ description_raw' = ""

(***************************************************************************)
(* POST /create-job                                                        *)
(***************************************************************************)
create_job(title, description) ==
    /\ Accept("create_job", [title |-> title, description |-> description])
    /\ FreshLocals
    /\ \E utcnow \in 0 .. MaxClock :
        LET job_id == "JOB-" \o ToString(utcnow)
        IN  \E res \in airtable_create_record(JOBS_TABLE,
                           [job_id |-> job_id, description_raw |-> description]) :
             /\ calls' = res.made
             /\ store' = res.store
             /\ IF res.raised # None
                THEN Finish(Unhandled(res.raised[1]))
                ELSE Finish(Response(200, [status |-> "ok", job_id |-> job_id,
                                           airtable_id |-> res.value.id]))
    /\ UNCHANGED env

(***************************************************************************)
(* POST /upload-cv                                                         *)
(***************************************************************************)
\* The candidate is created as already analysed.
NewCandidateFields_Done(job_id, filename, text) ==
    [job_id |-> job_id, file_name |-> filename, cv_text_raw |-> text,
     analysis_status |-> "done", score |-> 0]

\* The fields a candidate is created with.
NewCandidateFields(job_id, filename, text) ==
    [job_id |-> job_id, file_name |-> filename, cv_text_raw |-> text,
     analysis_status |-> "pending"]

upload_cv(job_id, filename, file_bytes) ==
    /\ Accept("upload_cv", [job_id |-> job_id, filename |-> filename, file |-> file_bytes])
    /\ FreshLocals
    /\ LET text == extract_text_from_pdf_bytes(file_bytes)
       IN  IF text.raised # None
           THEN /\ calls' = <<>>
                /\ store' = store
                /\ Finish(Unhandled(text.raised[1]))
           ELSE \E res \in airtable_create_record(CANDIDATES_TABLE,
                              NewCandidateFields(job_id, filename, text.value)) :
                /\ calls' = res.made
                /\ store' = res.store
                /\ IF res.raised # None
                   THEN Finish(Unhandled(res.raised[1]))
                   ELSE Finish(Response(200, [status |-> "ok",
                                              candidate_id |-> res.value.id]))
    /\ UNCHANGED env

(***************************************************************************)
(* POST /update-decision                                                   *)
(***************************************************************************)
\* Any decision token is let through.
ValidDecision_Any(decision) == TRUE

ValidDecision(decision) == decision \in {"yes", "no"}

airtable_value(decision) == IF decision = "yes" THEN "OUI" ELSE "NON"

update_decision(candidate_id, decision) ==
    /\ Accept("update_decision", [candidate_id |-> candidate_id, decision |-> decision])
    /\ FreshLocals
    /\ IF ~ValidDecision(decision)
       THEN /\ calls' = <<>>
            /\ store' = store
            /\ Finish(HTTPException(400, <<"decision must be 'yes' or 'no'">>))
       ELSE \E res \in airtable_update_record(CANDIDATES_TABLE, candidate_id,
                              [decision |-> airtable_value(decision)]) :
            /\ calls' = res.made
            /\ store' = res.store
            /\ IF res.raised = None
               THEN Finish(Response(200, [status |-> "ok",
                                          airtable_id |-> Get(res.value, "id")]))
               ELSE IF res.raised[1].type = "RuntimeError"
                    THEN Finish(HTTPException(500, res.raised[1].msg))
                    ELSE Finish(Unhandled(res.raised[1]))
    /\ UNCHANGED env

(***************************************************************************)
(* GET /results                                                            *)
(***************************************************************************)
FilterByJobId(job_id) == <<"{job_id} = ", job_id>>

\* The projection of one store record to the view the endpoint lists.
CandidateView(rec) ==
    LET fields == GetOr(rec, "fields", <<>>)
    IN  [id |-> Get(rec, "id"),
         file_name |-> Get(fields, "file_name"),
         score |-> Get(fields, "score"),
         decision |-> Get(fields, "decision"),
         analysis_status |-> Get(fields, "analysis_status"),
         analysis_explanation |-> Get(fields, "analysis_explanation")]

RECURSIVE CandidateViews(_)
CandidateViews(records) ==
    IF records = <<>> THEN <<>>
    ELSE <<CandidateView(Head(records))>> \o CandidateViews(Tail(records))

\* The cursor is not put into the next request.
WithOffset_Dropped(p, o) == p

\* params["offset"] = offset
WithOffset(p, o) ==
    [k \in DOMAIN p \cup {"offset"} |-> IF k = "offset" THEN o ELSE p[k]]

\* The bodies the store may answer a page request with, `got` records having
\* been returned so far.  The store holds at most MaxCandidates records of a
\* job and returns them in at most MaxPages pages: the page that reaches that
\* bound carries no cursor.
PageBodies(got, last) ==
    LET recs == SeqsUpTo(CandidateRecords, MaxCandidates - got)
        final == {<<>>} \cup {[records |-> rs] : rs \in recs}
        more == {[offset |-> c] : c \in Cursors}
                \cup {[records |-> rs, offset |-> c] : rs \in recs, c \in Cursors}
    IN  IF last THEN final ELSE final \cup more

\* Entry of the handler up to the loop: the parameter checks and the locals.
get_results(job_id) ==
    /\ Accept("get_results", [job_id |-> job_id])
    /\ calls' = <<>>
    /\ description_raw' = ""
    /\ IF job_id = None
       THEN /\ Finish(ValidationError("job_id"))
            /\ offset' = None /\ params' = None /\ candidates' = <<>>
       ELSE IF ~Truthy(job_id)
       THEN /\ Finish(HTTPException(400, <<"job_id is required">>))
            /\ offset' = None /\ params' = None /\ candidates' = <<>>
       ELSE IF ~check_airtable_env
       THEN /\ Finish(Unhandled(EnvError))
            /\ offset' = None /\ params' = None /\ candidates' = <<>>
       ELSE /\ params' = Some([filterByFormula |-> FilterByJobId(job_id[1]),
                               pageSize |-> PageSize])
            /\ candidates' = <<>>
            /\ offset' = None
            /\ pc' = "page"
            /\ response' = None
    /\ UNCHANGED <<env, store>>

\* One iteration of the `while True` loop: one page request.  The body of the
\* function ends with this loop: the statements that follow it in the file
\* (the sort of `candidates` and the return of the list) are written at
\* module level, so that leaving the loop returns None, the null body.
get_results_page ==
    /\ pc = "page"
    /\ LET p == IF Truthy(offset) THEN WithOffset(params[1], offset[1]) ELSE params[1]
           url == AirtableUrl(<<CANDIDATES_TABLE>>)
       IN  /\ params' = Some(p)
           /\ \/ /\ calls' = Append(calls, Call("GET", url, Some(p), None,
                                                "transport_error", None))
                 /\ Raise(Unhandled(ConnectionError))
                 /\ UNCHANGED <<offset, candidates>>
              \/ \E r \in ErrorResponses :
                 /\ calls' = Append(calls, Call("GET", url, Some(p), None,
                                                "http_error", Some(r)))
                 /\ Raise(Unhandled(HTTPError(r)))
                 /\ UNCHANGED <<offset, candidates>>
              \/ \E data \in PageBodies(Len(candidates), Len(calls) + 1 >= MaxPages) :
                 /\ calls' = Append(calls, Call("GET", url, Some(p), None,
                                                "ok", Some(data)))
                 /\ candidates' = candidates \o CandidateViews(GetOr(data, "records", <<>>))
                 /\ offset' = Get(data, "offset")
                 /\ IF ~Truthy(Get(data, "offset"))
                    THEN Finish(Response(200, None))
                    ELSE UNCHANGED <<pc, response>>
    /\ UNCHANGED <<env, store, nreq, handler, req, description_raw>>

(***************************************************************************)
(* POST /trigger-analysis                                                  *)
(***************************************************************************)
\* The description is not read from the record.
JobDescription_Blank(records) == ""

\* description_raw of the first record found, "" when the field is absent.
JobDescription(records) ==
    GetOr(GetOr(records[1], "fields", <<>>), "description_raw", "")

LookupBodies ==
    {<<>>} \cup {[records |-> rs] : rs \in SeqsUpTo(JobRecords, LookupPageSize)}

\* Entry of the handler: the configuration checks.
trigger_analysis(job_id) ==
    /\ Accept("trigger_analysis", [job_id |-> job_id])
    /\ FreshLocals
    /\ calls' = <<>>
    /\ IF ~Truthy(env.MAKE_WEBHOOK_URL)
       THEN Finish(HTTPException(500, <<"MAKE_WEBHOOK_URL is not configured on the server.">>))
       ELSE IF ~check_airtable_env
       THEN Finish(Unhandled(EnvError))
       ELSE /\ pc' = "lookup"
            /\ response' = None
    /\ UNCHANGED <<env, store>>

\* The lookup of the job in the Jobs table.
trigger_lookup ==
    /\ pc = "lookup"
    /\ LET url == AirtableUrl(<<JOBS_TABLE>>)
           q == [filterByFormula |-> FilterByJobId(req.job_id), pageSize |-> LookupPageSize]
           failed == HTTPException(502, <<"Error while fetching job from Airtable.">>)
       IN  \/ /\ calls' = Append(calls, Call("GET", url, Some(q), None,
                                             "transport_error", None))
              /\ Raise(failed)
              /\ UNCHANGED description_raw
           \/ \E r \in ErrorResponses :
              /\ calls' = Append(calls, Call("GET", url, Some(q), None,
                                             "http_error", Some(r)))
              /\ Raise(failed)
              /\ UNCHANGED description_raw
           \/ \E data \in LookupBodies :
              /\ calls' = Append(calls, Call("GET", url, Some(q), None, "ok", Some(data)))
              /\ LET records == GetOr(data, "records", <<>>)
                 IN  IF records = <<>>
                     THEN /\ Finish(HTTPException(404,
                                 <<"No job found in Airtable for job_id=", req.job_id>>))
                          /\ UNCHANGED description_raw
                     ELSE /\ description_raw' = JobDescription(records)
                          /\ pc' = "webhook"
                          /\ UNCHANGED response
    /\ UNCHANGED <<env, store, nreq, handler, req, offset, params, candidates>>

\* The POST to the webhook.
trigger_webhook ==
    /\ pc = "webhook"
    /\ LET url == <<Str(env.MAKE_WEBHOOK_URL)>>
           body == [job_id |-> req.job_id, description_raw |-> description_raw]
           failed == HTTPException(502, <<"Error while calling Make webhook.">>)
       IN  \/ /\ calls' = Append(calls, Call("POST", url, None, Some(body),
                                             "transport_error", None))
              /\ Raise(failed)
           \/ \E r \in ErrorResponses :
              /\ calls' = Append(calls, Call("POST", url, None, Some(body),
                                             "http_error", Some(r)))
              /\ Raise(failed)
           \/ /\ calls' = Append(calls, Call("POST", url, None, Some(body), "ok", None))
              /\ Finish(Response(200, [status |-> "ok"]))
    /\ UNCHANGED <<env, store, nreq, handler, req, Locals>>

(***************************************************************************)
(* The system.                                                             *)
(***************************************************************************)
CandidateIdInputs == {"rec1", "rec2", "rec404"}

Next ==
    \/ \E title \in {None, Some("Dev")}, description \in Descriptions :
         create_job(title, description)
    \/ \E job_id \in UploadJobIds, filename \in FileNames, file_bytes \in Files :
         upload_cv(job_id, filename, file_bytes)
    \/ \E job_id \in {None} \cup {Some(j) : j \in JobIdInputs} : get_results(job_id)
    \/ get_results_page
    \/ \E job_id \in JobIdInputs : trigger_analysis(job_id)
    \/ trigger_lookup
    \/ trigger_webhook
    \/ \E candidate_id \in CandidateIdInputs, decision \in DecisionInputs :
         update_decision(candidate_id, decision)

Spec == Init /\ [][Next]_vars

\* Every request that was accepted is served to its end.
FairSpec == Spec /\ WF_vars(get_results_page) /\ WF_vars(trigger_lookup)
                 /\ WF_vars(trigger_webhook)

(***************************************************************************)
(* Vocabulary of the properties.                                           *)
(***************************************************************************)
Done(h) == pc = "idle" /\ handler = h

IsWebhookCall(c) == c.method = "POST" /\ Len(c.url) = 1
IsStoreCall(c) == Len(c.url) > 1
Failed(c) == c.outcome # "ok"

\* The records of all the pages the store answered with, in order.
RECURSIVE Merged(_)
Merged(cs) ==
    IF cs = <<>> THEN <<>>
    ELSE (IF Head(cs).outcome = "ok" /\ "records" \in DOMAIN Head(cs).reply[1]
          THEN Head(cs).reply[1].records ELSE <<>>) \o Merged(Tail(cs))

\* The view the endpoint is to list for a record.
ExpectedView(rec) ==
    LET f(k) == IF "fields" \in DOMAIN rec /\ k \in DOMAIN rec.fields
                THEN <<rec.fields[k]>> ELSE <<>>
    IN  [id |-> <<rec.id>>, file_name |-> f("file_name"), score |-> f("score"),
         decision |-> f("decision"), analysis_status |-> f("analysis_status"),
         analysis_explanation |-> f("analysis_explanation")]

Count(x, seq) == Cardinality({i \in DOMAIN seq : seq[i] = x})

\* The ordering key of a view: its score, 0 when the score is absent.
OrderKey(c) == IF c.score = <<>> THEN 0 ELSE c.score[1]

\* seq is ordered by key descending, ties in the order of `original`
\* (whose elements are distinct up to position).
DescendingStable(seq, original) ==
    /\ Len(seq) = Len(original)
    /\ \E perm \in [DOMAIN seq -> DOMAIN original] :
        /\ \A i, j \in DOMAIN seq : i # j => perm[i] # perm[j]
        /\ \A i \in DOMAIN seq : seq[i] = original[perm[i]]
        /\ \A i, j \in DOMAIN seq : i < j =>
              \/ OrderKey(seq[i]) > OrderKey(seq[j])
              \/ OrderKey(seq[i]) = OrderKey(seq[j]) /\ perm[i] < perm[j]

ReturnsCandidates == response.status = 200 /\ "candidates" \in DOMAIN response.body

\* C1: GET /results returns one projected view per record of the merged
\* pages: nothing lost, duplicated or filtered out.
C1_AllRecordsReturned ==
    (Done("get_results") /\ response.status = 200) =>
        /\ ReturnsCandidates
        /\ Len(response.body.candidates) = Len(Merged(calls))
        /\ \A r \in CandidateRecords :
              Count(ExpectedView(r), response.body.candidates) = Count(r, Merged(calls))

\* C3: the candidates returned by GET /results are ordered by score
\* descending, an absent score counting as 0, ties in the store's order.
C3_SortedByScore ==
    (Done("get_results") /\ response.status = 200) =>
        /\ ReturnsCandidates
        /\ LET original == [i \in DOMAIN Merged(calls) |-> ExpectedView(Merged(calls)[i])]
           IN  DescendingStable(response.body.candidates, original)

\* C2: in the cursor loop of GET /results the first request carries no
\* offset, every later request carries the cursor of the response just
\* before it, the loop goes on exactly while the last response carried a
\* cursor and ends with success at the first response without one; the
\* handler always comes to its end.
C2_Inv ==
    handler = "get_results" =>
        /\ \A i \in DOMAIN calls :
              /\ calls[i].method = "GET"
              /\ i = 1 => "offset" \notin DOMAIN calls[i].query[1]
              /\ i > 1 => /\ calls[i - 1].outcome = "ok"
                          /\ "offset" \in DOMAIN calls[i - 1].reply[1]
                          /\ "offset" \in DOMAIN calls[i].query[1]
                          /\ calls[i].query[1].offset = calls[i - 1].reply[1].offset
        /\ (pc = "page" /\ calls # <<>>) =>
              /\ calls[Len(calls)].outcome = "ok"
              /\ "offset" \in DOMAIN calls[Len(calls)].reply[1]
        /\ (pc = "idle" /\ calls # <<>> /\ calls[Len(calls)].outcome = "ok") =>
              /\ "offset" \notin DOMAIN calls[Len(calls)].reply[1]
              /\ response.status = 200

C2_CursorLoop == []C2_Inv /\ (pc = "page" ~> pc = "idle")

\* A store that answered two pages: two calls were made, the second with the
\* cursor of the first.
C2_Witness ==
    /\ Done("get_results") /\ response.status = 200 /\ Len(calls) = 2
    /\ calls[1].reply[1].offset = "abc" /\ calls[2].query[1].offset = "abc"

\* C4: an update of the store is issued only for a decision that is "yes"
\* or "no"; any other decision is answered 400 without a store call.
C4_InvalidDecisionRejected ==
    handler = "update_decision" =>
        /\ calls # <<>> => req.decision \in {"yes", "no"}
        /\ (pc = "idle" /\ req.decision \notin {"yes", "no"}) =>
              response.status = 400 /\ calls = <<>>

C4_Witness ==
    Done("update_decision") /\ req.decision = "maybe" /\ response.status = 400
    /\ check_airtable_env

\* C5: a valid decision gives exactly one update of the candidate's record,
\* writing only decision = OUI / NON, and any failure of that update is
\* answered 500 with the failure's message.
C5_DecisionUpdate ==
    (Done("update_decision") /\ req.decision \in {"yes", "no"} /\ check_airtable_env) =>
        /\ Len(calls) = 1
        /\ calls[1].method = "PATCH"
        /\ calls[1].url = <<"https://api.airtable.com/v0", env.AIRTABLE_BASE_ID[1],
                            "Candidates", req.candidate_id>>
        /\ calls[1].json[1] =
              [fields |-> [decision |-> IF req.decision = "yes" THEN "OUI" ELSE "NON"]]
        /\ Failed(calls[1]) =>
              /\ response.status = 500
              /\ "detail" \in DOMAIN response.body
              /\ response.body.detail =
                    IF calls[1].outcome = "transport_error"
                    THEN ConnectionError.msg
                    ELSE <<"Airtable error", calls[1].reply[1].status_code,
                           calls[1].reply[1].text>>

\* C6: the webhook is called only after a lookup that succeeded and found a
\* record, with the request's job_id and the description_raw of the first
\* record found ("" when it has none); a lookup that finds nothing is
\* answered 404 and the webhook is not called.
C6_WebhookAfterLookup ==
    handler = "trigger_analysis" =>
        /\ \A i \in DOMAIN calls : IsWebhookCall(calls[i]) =>
              /\ i = 2
              /\ calls[1].method = "GET" /\ calls[1].outcome = "ok"
              /\ "records" \in DOMAIN calls[1].reply[1]
              /\ calls[1].reply[1].records # <<>>
              /\ LET first == calls[1].reply[1].records[1]
                 IN  calls[i].json[1] =
                        [job_id |-> req.job_id,
                         description_raw |->
                            IF "fields" \in DOMAIN first
                               /\ "description_raw" \in DOMAIN first.fields
                            THEN first.fields.description_raw ELSE ""]
        /\ (pc = "idle" /\ calls # <<>> /\ calls[1].outcome = "ok"
            /\ GetOr(calls[1].reply[1], "records", <<>>) = <<>>) =>
              response.status = 404 /\ Len(calls) = 1

\* A job that is not in the store: 404 after the one lookup.
C6_Witness ==
    /\ Done("trigger_analysis") /\ response.status = 404 /\ Len(calls) = 1
    /\ calls[1].reply[1] = [records |-> <<>>]

\* C7: GET /results without a job_id, missing or empty, is answered 400
\* and no outbound call is made.
C7_MissingJobIdRejected ==
    (Done("get_results") /\ ~Truthy(req.job_id)) =>
        response.status = 400 /\ calls = <<>>

\* The request of a handler got through the checks of its inputs, so that the
\* store is what it needs next.
InputAccepted ==
    CASE handler = "get_results" -> Truthy(req.job_id)
      [] handler = "update_decision" -> req.decision \in {"yes", "no"}
      [] handler = "upload_cv" -> req.file.parseable
      [] OTHER -> TRUE

\* C8: no call goes to the store while the token or the base id is unset,
\* none goes to the webhook while its URL is unset, and POST
\* /trigger-analysis calls nothing at all while the webhook URL is unset; an
\* operation that needs the missing configuration is answered 500.
C8_ConfigBeforeNetwork ==
    /\ \A i \in DOMAIN calls :
          /\ IsStoreCall(calls[i]) => Truthy(env.AIRTABLE_TOKEN) /\ Truthy(env.AIRTABLE_BASE_ID)
          /\ IsWebhookCall(calls[i]) => Truthy(env.MAKE_WEBHOOK_URL)
    /\ (handler = "trigger_analysis" /\ ~Truthy(env.MAKE_WEBHOOK_URL)) =>
          calls = <<>> /\ pc = "idle" /\ response.status = 500
    /\ (pc = "idle" /\ handler # "none" /\ InputAccepted
        /\ ~(Truthy(env.AIRTABLE_TOKEN) /\ Truthy(env.AIRTABLE_BASE_ID))) =>
          calls = <<>> /\ response.status = 500

\* The store is not configured and a job is to be created.
C8_Witness ==
    /\ Done("create_job") /\ env.AIRTABLE_TOKEN = Some("v") /\ env.AIRTABLE_BASE_ID = None
    /\ response.status = 500 /\ calls = <<>>

\* C9: a failed outbound call is the last call of its handler, which ends
\* with an error: 502 in POST /trigger-analysis, no candidates list in
\* GET /results; create, update, lookup and webhook are called at most once.
C9_NoRetry ==
    /\ \A i \in DOMAIN calls : Failed(calls[i]) =>
          /\ i = Len(calls)
          /\ pc = "idle"
          /\ response.status >= 400
          /\ handler = "trigger_analysis" => response.status = 502
          /\ handler = "get_results" => "candidates" \notin DOMAIN response.body
    /\ handler \in {"create_job", "upload_cv", "update_decision"} => Len(calls) <= 1
    /\ handler = "trigger_analysis" =>
          /\ Len(calls) <= 2
          /\ Len(calls) = 2 => ~IsWebhookCall(calls[1]) /\ IsWebhookCall(calls[2])

\* The second page request failed: two calls, an error, nothing listed.
C9_Witness ==
    /\ Done("get_results") /\ Len(calls) = 2 /\ Failed(calls[2])
    /\ response.status = 500 /\ candidates # <<>>

\* C10: a candidate enters the store only through POST /upload-cv, as
\* pending and under the submitted job_id (no job needs to exist); from then
\* on only its decision changes, and only through POST /update-decision;
\* candidates are never removed and jobs never change once created.
C10_Step ==
    /\ Len(store'.Jobs) >= Len(store.Jobs)
    /\ \A i \in DOMAIN store.Jobs : store'.Jobs[i] = store.Jobs[i]
    /\ store'.Jobs # store.Jobs => handler' = "create_job"
    /\ Len(store'.Candidates) >= Len(store.Candidates)
    /\ \A i \in DOMAIN store.Candidates :
          LET old == store.Candidates[i]
              new == store'.Candidates[i]
          IN  /\ new.id = old.id
              /\ \A k \in (DOMAIN old.fields \cup DOMAIN new.fields) \ {"decision"} :
                    Get(new.fields, k) = Get(old.fields, k)
              /\ Get(new.fields, "decision") # Get(old.fields, "decision") =>
                    handler' = "update_decision"
    /\ \A i \in DOMAIN store'.Candidates \ DOMAIN store.Candidates :
          LET new == store'.Candidates[i]
          IN  /\ handler' = "upload_cv"
              /\ req'.file.parseable
              /\ DOMAIN new.fields = {"job_id", "file_name", "cv_text_raw", "analysis_status"}
              /\ new.fields.analysis_status = "pending"
              /\ new.fields.job_id = req'.job_id

C10_StoreWrites == [][C10_Step]_vars

\* A candidate of a job that was never created, decided on.
C10_Witness ==
    /\ store.Jobs = <<>> /\ Len(store.Candidates) = 1
    /\ store.Candidates[1].fields.analysis_status = "pending"
    /\ Get(store.Candidates[1].fields, "decision") = Some("NON")

====
